---- MODULE Spec2Model ----
(***************************************************************************)
(* TerminalView of src/main.ts: the line editor (handleInput), the command *)
(* dispatcher (executeCommand), path resolution (changeDirectory) and the  *)
(* prompt (writePrompt), with child_process.exec, fs, os and path as the   *)
(* environment.                                                            *)
(*                                                                         *)
(* Strings are sequences of characters.  A character is a one-character    *)
(* string, except the characters TLA+ cannot write and the ANSI colour     *)
(* sequences, which are named: "DEL" (code 127), "ETX" (code 3), "BS"      *)
(* (code 8), "ESC" (code 27), "ESC[31m", "ESC[32m", "ESC[0m".              *)
(***************************************************************************)
EXTENDS Naturals, Sequences, FiniteSets

VARIABLES startupDirectory, view, shellProcess, cwd, currentLine, terminal, commands

vars == <<startupDirectory, view, shellProcess, cwd, currentLine, terminal, commands>>

(***************************************************************************)
(* Bounds of the model.                                                    *)
(***************************************************************************)
\* input events that write to the terminal, per view
MaxEvents == 4
\* characters in currentLine
MaxLine == 6

(***************************************************************************)
(* Key codes tested by handleInput.                                        *)
(***************************************************************************)
KeyEnter == 13
KeyBackspace == 127
KeyCtrlC == 3
FirstPrintable == 32

\* String.prototype.charCodeAt for the characters of the model
charCodeAt(c) ==
    CASE c = "\r" -> 13
      [] c = "\n" -> 10
      [] c = "\t" -> 9
      [] c = "ETX" -> 3
      [] c = "ESC" -> 27
      [] c = "DEL" -> 127
      [] c = " " -> 32
      [] c = "." -> 46
      [] c = "/" -> 47
      [] c = "[" -> 91
      [] c = "~" -> 126
      [] c = "A" -> 65
      [] c = "C" -> 67
      [] c = "D" -> 68
      [] c = "a" -> 97
      [] c = "c" -> 99
      [] c = "d" -> 100
      [] c = "e" -> 101
      [] c = "f" -> 102
      [] c = "l" -> 108
      [] c = "p" -> 112
      [] c = "r" -> 114
      [] c = "s" -> 115
      [] c = "w" -> 119
      [] OTHER -> 120

(***************************************************************************)
(* String.prototype.trim, startsWith, slice.                               *)
(***************************************************************************)
WhiteSpace == {" ", "\t", "\r", "\n"}

RECURSIVE trimStart(_)
trimStart(s) ==
    IF s # <<>> /\ Head(s) \in WhiteSpace THEN trimStart(Tail(s)) ELSE s

RECURSIVE trimEnd(_)
trimEnd(s) ==
    IF s # <<>> /\ s[Len(s)] \in WhiteSpace
    THEN trimEnd(SubSeq(s, 1, Len(s) - 1))
    ELSE s

trim(s) == trimEnd(trimStart(s))

startsWith(s, p) == Len(s) >= Len(p) /\ SubSeq(s, 1, Len(p)) = p

\* s.substring(n) and s.slice(n), n >= 0
substring(s, n) == SubSeq(s, n + 1, Len(s))

\* s.slice(0, -1)
dropLast(s) == SubSeq(s, 1, Len(s) - 1)

\* JavaScript truthiness of a string
truthy(s) == s # <<>>

(***************************************************************************)
(* The environment: home directory, process directory and file system.     *)
(***************************************************************************)
\* process.env.HOME || process.env.USERPROFILE || os.homedir()
homedir == <<"/", "h">>

\* process.cwd() of the host application
processCwd == <<"/">>

\* the directories of the file system
Dirs == { <<"/">>, <<"/", "h">>, <<"/", "h", "/", "a">> }

\* the regular files; another process may remove one at any time
Files == { <<"/", "h", "/", "f">> }

\* what fs.existsSync(p) && fs.statSync(p).isDirectory() can do
StatOutcomes(p) ==
    IF p \in Dirs THEN {"dir"}
    ELSE IF p \in Files THEN {"notdir", "throws"}
    ELSE {"missing"}

\* the message of the exception statSync throws
statMessage == <<"E", "N", "O", "E", "N", "T">>

(***************************************************************************)
(* path.posix                                                              *)
(***************************************************************************)
isAbsolute(p) == p # <<>> /\ p[1] = "/"

\* the segments of p between the separators
RECURSIVE splitFrom(_, _, _)
splitFrom(p, i, seg) ==
    IF i > Len(p) THEN <<seg>>
    ELSE IF p[i] = "/" THEN <<seg>> \o splitFrom(p, i + 1, <<>>)
    ELSE splitFrom(p, i + 1, Append(seg, p[i]))

split(p) == splitFrom(p, 1, <<>>)

RECURSIVE joinSegs(_)
joinSegs(segs) ==
    IF segs = <<>> THEN <<>>
    ELSE IF Len(segs) = 1 THEN segs[1]
    ELSE segs[1] \o <<"/">> \o joinSegs(Tail(segs))

\* normalizeString: "." and empty segments dropped, ".." pops
RECURSIVE normalizeSegs(_, _, _)
normalizeSegs(segs, acc, allowAboveRoot) ==
    IF segs = <<>> THEN acc
    ELSE LET s == Head(segs) IN
         IF s = <<>> \/ s = <<".">>
         THEN normalizeSegs(Tail(segs), acc, allowAboveRoot)
         ELSE IF s = <<".", ".">>
         THEN IF acc # <<>> /\ acc[Len(acc)] # <<".", ".">>
              THEN normalizeSegs(Tail(segs), dropLast(acc), allowAboveRoot)
              ELSE IF allowAboveRoot
              THEN normalizeSegs(Tail(segs), Append(acc, s), allowAboveRoot)
              ELSE normalizeSegs(Tail(segs), acc, allowAboveRoot)
         ELSE normalizeSegs(Tail(segs), Append(acc, s), allowAboveRoot)

normalizeString(p, allowAboveRoot) ==
    joinSegs(normalizeSegs(split(p), <<>>, allowAboveRoot))

\* path.normalize
normalize(p) ==
    IF p = <<>> THEN <<".">>
    ELSE LET abs == isAbsolute(p)
             trailing == p[Len(p)] = "/"
             n == normalizeString(p, ~abs)
         IN  IF n = <<>>
             THEN IF abs THEN <<"/">>
                  ELSE IF trailing THEN <<".", "/">> ELSE <<".">>
             ELSE (IF abs THEN <<"/">> ELSE <<>>) \o n
                  \o (IF trailing THEN <<"/">> ELSE <<>>)

\* path.join(a, b)
join(a, b) ==
    LET joined == IF a = <<>> THEN b
                  ELSE IF b = <<>> THEN a
                  ELSE a \o <<"/">> \o b
    IN  IF joined = <<>> THEN <<".">> ELSE normalize(joined)

\* path.resolve(p)
resolve(p) ==
    LET full == IF isAbsolute(p) THEN p
                ELSE IF p = <<>> THEN processCwd
                ELSE processCwd \o <<"/">> \o p
    IN  <<"/">> \o normalizeString(full, FALSE)

(***************************************************************************)
(* The terminal: the calls made on it, in order.  Every call carries what  *)
(* wrote it (src) and the command it belongs to (cmd, 0 for the line       *)
(* editor's own writes).                                                   *)
(***************************************************************************)
Call(op, text, src, cmd) == [op |-> op, text |-> text, src |-> src, cmd |-> cmd]

CRLF == <<"\r", "\n">>

\* the characters a call sends to the display
Bytes(c) ==
    IF c.op = "write" THEN c.text
    ELSE IF c.op = "writeln" THEN c.text \o CRLF
    ELSE <<>>

red(s) == <<"ESC[31m">> \o s \o <<"ESC[0m">>

\* the prompt without its leading line break, whatever newLine says
promptText_noNewLine(dir, newLine) ==
    <<"ESC[32m">> \o dir \o <<"ESC[0m">> \o <<" ", "$", " ">>

\* the prompt with its leading line break, whatever newLine says
promptText_alwaysNewLine(dir, newLine) ==
    CRLF \o <<"ESC[32m">> \o dir \o <<"ESC[0m">> \o <<" ", "$", " ">>

promptText(dir, newLine) ==
    (IF newLine THEN CRLF ELSE <<>>)
        \o <<"ESC[32m">> \o dir \o <<"ESC[0m">> \o <<" ", "$", " ">>

\* writePrompt(newLine, scrollToBottom) on terminal t, for command cmd
writePrompt(t, dir, newLine, scrollToBottom, cmd) ==
    t \o <<Call("write", promptText(dir, newLine), "prompt", cmd)>>
      \o (IF scrollToBottom
          THEN <<Call("scrollToBottom", <<>>, "scroll", cmd)>>
          ELSE <<>>)

(***************************************************************************)
(* constructor                                                             *)
(***************************************************************************)
StartupChoices ==
    { <<>>, <<" ">>, <<"/", "h", "/", "a", " ">>, <<"/", "n">>, <<"a">> }

initialCwd(startup) ==
    IF truthy(startup) /\ truthy(trim(startup))
    THEN trim(startup)
    ELSE homedir

Init ==
    /\ startupDirectory \in StartupChoices
    /\ view = "constructed"
    /\ shellProcess = "null"
    /\ cwd = initialCwd(startupDirectory)
    /\ currentLine = <<>>
    /\ terminal = <<>>
    /\ commands = <<>>

(***************************************************************************)
(* onOpen: terminal.clear(), the first prompt, onData registered.          *)
(***************************************************************************)
onOpen ==
    /\ view = "constructed"
    /\ view' = "open"
    /\ terminal' = writePrompt(Append(terminal, Call("clear", <<>>, "clear", 0)),
                               cwd, FALSE, FALSE, 0)
    /\ UNCHANGED <<startupDirectory, shellProcess, cwd, currentLine, commands>>

(***************************************************************************)
(* changeDirectory(newPath), the cd built-in; t is the terminal so far and *)
(* id the command's number.                                                *)
(***************************************************************************)
targetPath(dir, newPath) ==
    resolve(IF newPath = <<"~">> THEN homedir
            ELSE IF startsWith(newPath, <<"~", "/">>)
                 THEN join(homedir, substring(newPath, 2))
            ELSE IF ~isAbsolute(newPath) THEN join(dir, newPath)
            ELSE newPath)

noSuchFile ==
    <<"c", "d", ":", " ", "n", "o", " ", "s", "u", "c", "h", " ",
      "f", "i", "l", "e", " ", "o", "r", " ",
      "d", "i", "r", "e", "c", "t", "o", "r", "y", ":", " ">>

\* changeDirectory returning from the catch and else branches without a prompt
changeDirectory_noPromptOnError(newPath, t, id, stat) ==
    IF stat = "dir"
    THEN /\ cwd' = targetPath(cwd, newPath)
         /\ terminal' = writePrompt(t, targetPath(cwd, newPath), TRUE, TRUE, id)
    ELSE IF stat = "throws"
    THEN /\ cwd' = cwd
         /\ terminal' = Append(t, Call("writeln", red(<<"c", "d", ":", " ">> \o statMessage),
                                       "cderr", id))
    ELSE /\ cwd' = cwd
         /\ terminal' = Append(t, Call("writeln", red(noSuchFile \o newPath), "cderr", id))

\* changeDirectory assigning the path as typed, not the resolved one
changeDirectory_rawPath(newPath, t, id, stat) ==
    IF stat = "dir"
    THEN /\ cwd' = newPath
         /\ terminal' = writePrompt(t, newPath, TRUE, TRUE, id)
    ELSE IF stat = "throws"
    THEN /\ cwd' = cwd
         /\ terminal' = writePrompt(
                Append(t, Call("writeln", red(<<"c", "d", ":", " ">> \o statMessage),
                               "cderr", id)),
                cwd, TRUE, TRUE, id)
    ELSE /\ cwd' = cwd
         /\ terminal' = writePrompt(
                Append(t, Call("writeln", red(noSuchFile \o newPath), "cderr", id)),
                cwd, TRUE, TRUE, id)

\* changeDirectory reporting the resolved path, not the typed target
changeDirectory_resolvedInMessage(newPath, t, id, stat) ==
    IF stat = "dir"
    THEN /\ cwd' = targetPath(cwd, newPath)
         /\ terminal' = writePrompt(t, targetPath(cwd, newPath), TRUE, TRUE, id)
    ELSE IF stat = "throws"
    THEN /\ cwd' = cwd
         /\ terminal' = writePrompt(
                Append(t, Call("writeln", red(<<"c", "d", ":", " ">> \o statMessage),
                               "cderr", id)),
                cwd, TRUE, TRUE, id)
    ELSE /\ cwd' = cwd
         /\ terminal' = writePrompt(
                Append(t, Call("writeln", red(noSuchFile \o targetPath(cwd, newPath)),
                               "cderr", id)),
                cwd, TRUE, TRUE, id)

\* stat is what the file system answers for the resolved path
changeDirectory(newPath, t, id, stat) ==
    IF stat = "dir"
    THEN /\ cwd' = targetPath(cwd, newPath)
         /\ terminal' = writePrompt(t, targetPath(cwd, newPath), TRUE, TRUE, id)
    ELSE IF stat = "throws"
    THEN /\ cwd' = cwd
         /\ terminal' = writePrompt(
                Append(t, Call("writeln", red(<<"c", "d", ":", " ">> \o statMessage),
                               "cderr", id)),
                cwd, TRUE, TRUE, id)
    ELSE /\ cwd' = cwd
         /\ terminal' = writePrompt(
                Append(t, Call("writeln", red(noSuchFile \o newPath), "cderr", id)),
                cwd, TRUE, TRUE, id)

(***************************************************************************)
(* executeCommand(command); t is the terminal so far.  commands records    *)
(* every command dispatched: its text, the branch taken, cwd at dispatch,  *)
(* whether its handling is complete, what the file system answered (cd)    *)
(* and the ExecutionResult (external commands, once the callback has run). *)
(***************************************************************************)
NoError == <<>>

Command(command, branch, done, stat) ==
    [command |-> command, branch |-> branch, cwd |-> cwd, done |-> done,
     stat |-> stat, error |-> NoError, stdout |-> <<>>, stderr |-> <<>>]

\* executeCommand taking every command that begins with pwd for pwd
executeCommand_pwdPrefix(command, t) ==
    LET id == Len(commands) + 1 IN
    IF startsWith(command, <<"c", "d", " ">>)
    THEN \E stat \in StatOutcomes(targetPath(cwd, trim(substring(command, 3)))) :
            /\ changeDirectory(trim(substring(command, 3)), t, id, stat)
            /\ commands' = Append(commands, Command(command, "cd", TRUE, stat))
    ELSE IF command = <<"c", "l", "e", "a", "r">> \/ command = <<"c", "l", "s">>
    THEN /\ terminal' = writePrompt(Append(t, Call("clear", <<>>, "clear", id)),
                                    cwd, FALSE, FALSE, id)
         /\ commands' = Append(commands, Command(command, "clear", TRUE, "none"))
         /\ cwd' = cwd
    ELSE IF startsWith(command, <<"p", "w", "d">>)
    THEN /\ terminal' = writePrompt(Append(t, Call("writeln", cwd, "pwd", id)),
                                    cwd, TRUE, TRUE, id)
         /\ commands' = Append(commands, Command(command, "pwd", TRUE, "none"))
         /\ cwd' = cwd
    ELSE \* exec(command, {cwd, env}, callback): the callback runs later
         /\ terminal' = t
         /\ commands' = Append(commands, Command(command, "exec", FALSE, "none"))
         /\ cwd' = cwd

executeCommand(command, t) ==
    LET id == Len(commands) + 1 IN
    IF startsWith(command, <<"c", "d", " ">>)
    THEN \E stat \in StatOutcomes(targetPath(cwd, trim(substring(command, 3)))) :
            /\ changeDirectory(trim(substring(command, 3)), t, id, stat)
            /\ commands' = Append(commands, Command(command, "cd", TRUE, stat))
    ELSE IF command = <<"c", "l", "e", "a", "r">> \/ command = <<"c", "l", "s">>
    THEN /\ terminal' = writePrompt(Append(t, Call("clear", <<>>, "clear", id)),
                                    cwd, FALSE, FALSE, id)
         /\ commands' = Append(commands, Command(command, "clear", TRUE, "none"))
         /\ cwd' = cwd
    ELSE IF command = <<"p", "w", "d">>
    THEN /\ terminal' = writePrompt(Append(t, Call("writeln", cwd, "pwd", id)),
                                    cwd, TRUE, TRUE, id)
         /\ commands' = Append(commands, Command(command, "pwd", TRUE, "none"))
         /\ cwd' = cwd
    ELSE \* exec(command, {cwd, env}, callback): the callback runs later
         /\ terminal' = t
         /\ commands' = Append(commands, Command(command, "exec", FALSE, "none"))
         /\ cwd' = cwd

(***************************************************************************)
(* The callback of exec, run once per external command.                    *)
(***************************************************************************)
Outputs == { <<>>, <<"o", "\n">> }
ErrOutputs == { <<>>, <<"e", "\n">> }
Errors == { NoError, <<"f", "a", "i", "l", "e", "d">> }

\* the callback writing error.message whenever there is an error
execCallback_alwaysMessage(id, error, stdout, stderr) ==
    LET t1 == IF truthy(stdout)
              THEN Append(terminal, Call("write", stdout, "stdout", id))
              ELSE terminal
        t2 == IF truthy(stderr)
              THEN Append(t1, Call("write", red(stderr), "stderr", id))
              ELSE t1
        t3 == IF error # NoError
              THEN Append(t2, Call("writeln", red(error), "error", id))
              ELSE t2
    IN  /\ terminal' = writePrompt(t3, cwd, TRUE, TRUE, id)
        /\ commands' = [commands EXCEPT ![id].done = TRUE, ![id].error = error,
                                        ![id].stdout = stdout, ![id].stderr = stderr]
        /\ UNCHANGED <<startupDirectory, view, shellProcess, cwd, currentLine>>

\* the callback going back to the directory the command was started in
execCallback_restoresCwd(id, error, stdout, stderr) ==
    LET t1 == IF truthy(stdout)
              THEN Append(terminal, Call("write", stdout, "stdout", id))
              ELSE terminal
        t2 == IF truthy(stderr)
              THEN Append(t1, Call("write", red(stderr), "stderr", id))
              ELSE t1
        t3 == IF error # NoError /\ ~truthy(stderr)
              THEN Append(t2, Call("writeln", red(error), "error", id))
              ELSE t2
    IN  /\ terminal' = writePrompt(t3, cwd, TRUE, TRUE, id)
        /\ commands' = [commands EXCEPT ![id].done = TRUE, ![id].error = error,
                                        ![id].stdout = stdout, ![id].stderr = stderr]
        /\ cwd' = commands[id].cwd
        /\ UNCHANGED <<startupDirectory, view, shellProcess, currentLine>>

execCallback(id, error, stdout, stderr) ==
    LET t1 == IF truthy(stdout)
              THEN Append(terminal, Call("write", stdout, "stdout", id))
              ELSE terminal
        t2 == IF truthy(stderr)
              THEN Append(t1, Call("write", red(stderr), "stderr", id))
              ELSE t1
        t3 == IF error # NoError /\ ~truthy(stderr)
              THEN Append(t2, Call("writeln", red(error), "error", id))
              ELSE t2
    IN  /\ terminal' = writePrompt(t3, cwd, TRUE, TRUE, id)
        /\ commands' = [commands EXCEPT ![id].done = TRUE, ![id].error = error,
                                        ![id].stdout = stdout, ![id].stderr = stderr]
        /\ UNCHANGED <<startupDirectory, view, shellProcess, cwd, currentLine>>

Outstanding == { i \in DOMAIN commands : ~commands[i].done }

execDone ==
    \E id \in Outstanding, error \in Errors, stdout \in Outputs, stderr \in ErrOutputs :
        execCallback(id, error, stdout, stderr)

(***************************************************************************)
(* handleInput(data)                                                       *)
(***************************************************************************)
\* handleInput testing currentLine, not currentLine.trim(), on Enter
handleInput_noTrimTest(data) ==
    LET code == charCodeAt(data[1]) IN
    IF code = KeyEnter
    THEN /\ IF truthy(currentLine)
            THEN executeCommand(trim(currentLine),
                     Append(terminal, Call("write", CRLF, "enter", Len(commands) + 1)))
            ELSE /\ terminal' = writePrompt(
                        Append(terminal, Call("write", CRLF, "enter", 0)),
                        cwd, TRUE, TRUE, 0)
                 /\ UNCHANGED <<cwd, commands>>
         /\ currentLine' = <<>>
    ELSE IF code = KeyBackspace
    THEN IF Len(currentLine) > 0
         THEN /\ currentLine' = dropLast(currentLine)
              /\ terminal' = Append(terminal,
                                 Call("write", <<"BS", " ", "BS">>, "erase", 0))
              /\ UNCHANGED <<cwd, commands>>
         ELSE UNCHANGED <<cwd, currentLine, terminal, commands>>
    ELSE IF code = KeyCtrlC
    THEN /\ terminal' = writePrompt(
                Append(terminal, Call("write", <<"^", "C">> \o CRLF, "ctrlc", 0)),
                cwd, TRUE, TRUE, 0)
         /\ currentLine' = <<>>
         /\ UNCHANGED <<cwd, commands>>
    ELSE IF code >= FirstPrintable
    THEN /\ currentLine' = currentLine \o data
         /\ terminal' = Append(terminal, Call("write", data, "echo", 0))
         /\ UNCHANGED <<cwd, commands>>
    ELSE UNCHANGED <<cwd, currentLine, terminal, commands>>

\* handleInput leaving currentLine as it is on Ctrl-C
handleInput_ctrlCKeepsLine(data) ==
    LET code == charCodeAt(data[1]) IN
    IF code = KeyEnter
    THEN /\ IF truthy(trim(currentLine))
            THEN executeCommand(trim(currentLine),
                     Append(terminal, Call("write", CRLF, "enter", Len(commands) + 1)))
            ELSE /\ terminal' = writePrompt(
                        Append(terminal, Call("write", CRLF, "enter", 0)),
                        cwd, TRUE, TRUE, 0)
                 /\ UNCHANGED <<cwd, commands>>
         /\ currentLine' = <<>>
    ELSE IF code = KeyBackspace
    THEN IF Len(currentLine) > 0
         THEN /\ currentLine' = dropLast(currentLine)
              /\ terminal' = Append(terminal,
                                 Call("write", <<"BS", " ", "BS">>, "erase", 0))
              /\ UNCHANGED <<cwd, commands>>
         ELSE UNCHANGED <<cwd, currentLine, terminal, commands>>
    ELSE IF code = KeyCtrlC
    THEN /\ terminal' = writePrompt(
                Append(terminal, Call("write", <<"^", "C">> \o CRLF, "ctrlc", 0)),
                cwd, TRUE, TRUE, 0)
         /\ UNCHANGED <<cwd, currentLine, commands>>
    ELSE IF code >= FirstPrintable
    THEN /\ currentLine' = currentLine \o data
         /\ terminal' = Append(terminal, Call("write", data, "echo", 0))
         /\ UNCHANGED <<cwd, commands>>
    ELSE UNCHANGED <<cwd, currentLine, terminal, commands>>

\* handleInput erasing on Backspace without testing currentLine.length
handleInput_eraseUnguarded(data) ==
    LET code == charCodeAt(data[1]) IN
    IF code = KeyEnter
    THEN /\ IF truthy(trim(currentLine))
            THEN executeCommand(trim(currentLine),
                     Append(terminal, Call("write", CRLF, "enter", Len(commands) + 1)))
            ELSE /\ terminal' = writePrompt(
                        Append(terminal, Call("write", CRLF, "enter", 0)),
                        cwd, TRUE, TRUE, 0)
                 /\ UNCHANGED <<cwd, commands>>
         /\ currentLine' = <<>>
    ELSE IF code = KeyBackspace
    THEN IF TRUE
         THEN /\ currentLine' = dropLast(currentLine)
              /\ terminal' = Append(terminal,
                                 Call("write", <<"BS", " ", "BS">>, "erase", 0))
              /\ UNCHANGED <<cwd, commands>>
         ELSE UNCHANGED <<cwd, currentLine, terminal, commands>>
    ELSE IF code = KeyCtrlC
    THEN /\ terminal' = writePrompt(
                Append(terminal, Call("write", <<"^", "C">> \o CRLF, "ctrlc", 0)),
                cwd, TRUE, TRUE, 0)
         /\ currentLine' = <<>>
         /\ UNCHANGED <<cwd, commands>>
    ELSE IF code >= FirstPrintable
    THEN /\ currentLine' = currentLine \o data
         /\ terminal' = Append(terminal, Call("write", data, "echo", 0))
         /\ UNCHANGED <<cwd, commands>>
    ELSE UNCHANGED <<cwd, currentLine, terminal, commands>>

\* handleInput assigning data to currentLine where it should append
handleInput_assignsData(data) ==
    LET code == charCodeAt(data[1]) IN
    IF code = KeyEnter
    THEN /\ IF truthy(trim(currentLine))
            THEN executeCommand(trim(currentLine),
                     Append(terminal, Call("write", CRLF, "enter", Len(commands) + 1)))
            ELSE /\ terminal' = writePrompt(
                        Append(terminal, Call("write", CRLF, "enter", 0)),
                        cwd, TRUE, TRUE, 0)
                 /\ UNCHANGED <<cwd, commands>>
         /\ currentLine' = <<>>
    ELSE IF code = KeyBackspace
    THEN IF Len(currentLine) > 0
         THEN /\ currentLine' = dropLast(currentLine)
              /\ terminal' = Append(terminal,
                                 Call("write", <<"BS", " ", "BS">>, "erase", 0))
              /\ UNCHANGED <<cwd, commands>>
         ELSE UNCHANGED <<cwd, currentLine, terminal, commands>>
    ELSE IF code = KeyCtrlC
    THEN /\ terminal' = writePrompt(
                Append(terminal, Call("write", <<"^", "C">> \o CRLF, "ctrlc", 0)),
                cwd, TRUE, TRUE, 0)
         /\ currentLine' = <<>>
         /\ UNCHANGED <<cwd, commands>>
    ELSE IF code >= FirstPrintable
    THEN /\ currentLine' = data
         /\ terminal' = Append(terminal, Call("write", data, "echo", 0))
         /\ UNCHANGED <<cwd, commands>>
    ELSE UNCHANGED <<cwd, currentLine, terminal, commands>>

\* handleInput ending the outstanding external commands on Ctrl-C
handleInput_ctrlCCancels(data) ==
    LET code == charCodeAt(data[1]) IN
    IF code = KeyEnter
    THEN /\ IF truthy(trim(currentLine))
            THEN executeCommand(trim(currentLine),
                     Append(terminal, Call("write", CRLF, "enter", Len(commands) + 1)))
            ELSE /\ terminal' = writePrompt(
                        Append(terminal, Call("write", CRLF, "enter", 0)),
                        cwd, TRUE, TRUE, 0)
                 /\ UNCHANGED <<cwd, commands>>
         /\ currentLine' = <<>>
    ELSE IF code = KeyBackspace
    THEN IF Len(currentLine) > 0
         THEN /\ currentLine' = dropLast(currentLine)
              /\ terminal' = Append(terminal,
                                 Call("write", <<"BS", " ", "BS">>, "erase", 0))
              /\ UNCHANGED <<cwd, commands>>
         ELSE UNCHANGED <<cwd, currentLine, terminal, commands>>
    ELSE IF code = KeyCtrlC
    THEN /\ terminal' = writePrompt(
                Append(terminal, Call("write", <<"^", "C">> \o CRLF, "ctrlc", 0)),
                cwd, TRUE, TRUE, 0)
         /\ currentLine' = <<>>
         /\ commands' = [i \in DOMAIN commands |-> [commands[i] EXCEPT !.done = TRUE]]
         /\ cwd' = cwd
    ELSE IF code >= FirstPrintable
    THEN /\ currentLine' = currentLine \o data
         /\ terminal' = Append(terminal, Call("write", data, "echo", 0))
         /\ UNCHANGED <<cwd, commands>>
    ELSE UNCHANGED <<cwd, currentLine, terminal, commands>>

\* handleInput handing currentLine to executeCommand untrimmed
handleInput_dispatchesUntrimmed(data) ==
    LET code == charCodeAt(data[1]) IN
    IF code = KeyEnter
    THEN /\ IF truthy(trim(currentLine))
            THEN executeCommand(currentLine,
                     Append(terminal, Call("write", CRLF, "enter", Len(commands) + 1)))
            ELSE /\ terminal' = writePrompt(
                        Append(terminal, Call("write", CRLF, "enter", 0)),
                        cwd, TRUE, TRUE, 0)
                 /\ UNCHANGED <<cwd, commands>>
         /\ currentLine' = <<>>
    ELSE IF code = KeyBackspace
    THEN IF Len(currentLine) > 0
         THEN /\ currentLine' = dropLast(currentLine)
              /\ terminal' = Append(terminal,
                                 Call("write", <<"BS", " ", "BS">>, "erase", 0))
              /\ UNCHANGED <<cwd, commands>>
         ELSE UNCHANGED <<cwd, currentLine, terminal, commands>>
    ELSE IF code = KeyCtrlC
    THEN /\ terminal' = writePrompt(
                Append(terminal, Call("write", <<"^", "C">> \o CRLF, "ctrlc", 0)),
                cwd, TRUE, TRUE, 0)
         /\ currentLine' = <<>>
         /\ UNCHANGED <<cwd, commands>>
    ELSE IF code >= FirstPrintable
    THEN /\ currentLine' = currentLine \o data
         /\ terminal' = Append(terminal, Call("write", data, "echo", 0))
         /\ UNCHANGED <<cwd, commands>>
    ELSE UNCHANGED <<cwd, currentLine, terminal, commands>>

handleInput(data) ==
    LET code == charCodeAt(data[1]) IN
    IF code = KeyEnter
    THEN /\ IF truthy(trim(currentLine))
            THEN executeCommand(trim(currentLine),
                     Append(terminal, Call("write", CRLF, "enter", Len(commands) + 1)))
            ELSE /\ terminal' = writePrompt(
                        Append(terminal, Call("write", CRLF, "enter", 0)),
                        cwd, TRUE, TRUE, 0)
                 /\ UNCHANGED <<cwd, commands>>
         /\ currentLine' = <<>>
    ELSE IF code = KeyBackspace
    THEN IF Len(currentLine) > 0
         THEN /\ currentLine' = dropLast(currentLine)
              /\ terminal' = Append(terminal,
                                 Call("write", <<"BS", " ", "BS">>, "erase", 0))
              /\ UNCHANGED <<cwd, commands>>
         ELSE UNCHANGED <<cwd, currentLine, terminal, commands>>
    ELSE IF code = KeyCtrlC
    THEN /\ terminal' = writePrompt(
                Append(terminal, Call("write", <<"^", "C">> \o CRLF, "ctrlc", 0)),
                cwd, TRUE, TRUE, 0)
         /\ currentLine' = <<>>
         /\ UNCHANGED <<cwd, commands>>
    ELSE IF code >= FirstPrintable
    THEN /\ currentLine' = currentLine \o data
         /\ terminal' = Append(terminal, Call("write", data, "echo", 0))
         /\ UNCHANGED <<cwd, commands>>
    ELSE UNCHANGED <<cwd, currentLine, terminal, commands>>

(***************************************************************************)
(* terminal.onData: the input units the display delivers while it is open. *)
(***************************************************************************)
\* "CD" is the external command of the model: no built-in, and cd in upper case
InputUnits ==
    { <<"\r">>, <<"DEL">>, <<"ETX">>, <<"ESC", "[", "A">>,
      <<" ">>, <<"C", "D">>, <<"p", "w", "d">>, <<"c", "l", "s">>,
      <<"c", "l", "e", "a", "r">>,
      <<"c", "d", " ", "a">>, <<"c", "d", " ", ".", ".">>, <<"c", "d", " ", "f">>,
      <<"c", "d", " ", "~">>, <<"c", "d", " ", "~", "/", "a">> }

InputSrc == {"enter", "erase", "ctrlc", "echo"}

NumInputs == Cardinality({ i \in DOMAIN terminal : terminal[i].src \in InputSrc })

\* data is a unit handleInput appends to currentLine
Appends(data) ==
    charCodeAt(data[1]) >= FirstPrintable /\ charCodeAt(data[1]) # KeyBackspace

onData ==
    \E data \in InputUnits :
        /\ view = "open"
        /\ NumInputs < MaxEvents
        /\ Appends(data) => Len(currentLine) + Len(data) <= MaxLine
        /\ handleInput(data)
        /\ UNCHANGED <<startupDirectory, view, shellProcess>>

(***************************************************************************)
(* onClose: shellProcess.kill() if shellProcess is set, then the terminal  *)
(* is disposed.  shellProcess is a field of its own: the child that exec   *)
(* starts is never stored in it, so kill() reaches no external command.    *)
(***************************************************************************)
\* onClose ending every external command still running, callbacks included
onClose_killsOutstanding ==
    /\ view = "open"
    /\ view' = "closed"
    /\ terminal' = Append(terminal, Call("dispose", <<>>, "close", 0))
    /\ commands' = [i \in DOMAIN commands |-> [commands[i] EXCEPT !.done = TRUE]]
    /\ UNCHANGED <<startupDirectory, shellProcess, cwd, currentLine>>

onClose ==
    /\ view = "open"
    /\ view' = "closed"
    /\ terminal' = Append(terminal, Call("dispose", <<>>, "close", 0))
    /\ UNCHANGED <<startupDirectory, shellProcess, cwd, currentLine, commands>>

(***************************************************************************)
(* Reading the terminal and the commands.                                  *)
(***************************************************************************)
\* how many calls written by src belong to command i
Count(src, i) == Len(SelectSeq(terminal, LAMBDA c : c.cmd = i /\ c.src = src))

NumPrompts == Len(SelectSeq(terminal, LAMBDA c : c.src = "prompt"))

RECURSIVE Flatten(_)
Flatten(calls) ==
    IF calls = <<>> THEN <<>> ELSE Bytes(Head(calls)) \o Flatten(Tail(calls))

\* the characters command i sent to the display, after the echo of its Enter
BytesOf(i) == Flatten(SelectSeq(terminal, LAMBDA c : c.cmd = i /\ c.src # "enter"))

OutputSrc == {"stdout", "stderr", "error", "pwd", "cderr"}

\* where command n was dispatched: the echo of its Enter
DispatchPos(n) ==
    CHOOSE k \in DOMAIN terminal : terminal[k].src = "enter" /\ terminal[k].cmd = n

\* the target of cd command i as typed, and as resolved
cdArg(i) == trim(substring(commands[i].command, 3))
cdTarget(i) == targetPath(commands[i].cwd, cdArg(i))

\* cwd once command i has been handled
cwdAfter(i) == IF i < Len(commands) THEN commands[i + 1].cwd ELSE cwd

(***************************************************************************)
(* C1: every command handed to executeCommand gets exactly one prompt of   *)
(* its own: none while its external execution is outstanding, one once its *)
(* handling is complete (cd success or failure, clear, pwd, or the exec    *)
(* callback has run), and that prompt is the last text written for it.     *)
(***************************************************************************)
C1_OnePromptPerCommand ==
    \A i \in DOMAIN commands :
        /\ Count("prompt", i) = IF commands[i].done THEN 1 ELSE 0
        /\ commands[i].done =>
              \A k, m \in DOMAIN terminal :
                  (/\ terminal[k].cmd = i /\ terminal[m].cmd = i
                   /\ terminal[m].src = "prompt" /\ terminal[k].op \in {"write", "writeln"})
                  => k <= m

C1_Witness ==
    /\ \E i \in DOMAIN commands :
          commands[i].branch = "exec" /\ commands[i].done /\ commands[i].error # NoError
    /\ \E i \in DOMAIN commands :
          commands[i].branch = "cd" /\ commands[i].stat # "dir"

(***************************************************************************)
(* C2: at most one external execution is outstanding at any time.          *)
(***************************************************************************)
C2_SingleFlight == Cardinality(Outstanding) <= 1

(***************************************************************************)
(* C3: all output of command n is written before the prompt of n, and no   *)
(* prompt of a later input event (a later command, an empty Enter, Ctrl-C) *)
(* is written between the dispatch of n and the last output of n.          *)
(***************************************************************************)
C3_OutputBeforePrompts ==
    \A n \in DOMAIN commands :
        \A k, m \in DOMAIN terminal :
            (terminal[m].cmd = n /\ terminal[m].src \in OutputSrc
             /\ terminal[k].src = "prompt")
            => /\ terminal[k].cmd = n => m < k
               /\ (k > DispatchPos(n) /\ (terminal[k].cmd = 0 \/ terminal[k].cmd > n))
                  => m < k

(***************************************************************************)
(* C4: cwd is always a non-empty absolute path of an existing directory.   *)
(***************************************************************************)
C4_CwdIsDirectory == cwd # <<>> /\ isAbsolute(cwd) /\ cwd \in Dirs

(***************************************************************************)
(* C5: at construction cwd is the home directory when the startup          *)
(* directory is empty or blank, and also when it is no existing directory. *)
(***************************************************************************)
C5_StartupFallsBackToHome ==
    (view = "constructed"
     /\ \/ \A i \in DOMAIN startupDirectory : startupDirectory[i] \in WhiteSpace
        \/ resolve(trim(startupDirectory)) \notin Dirs)
    => cwd = homedir

(***************************************************************************)
(* C6: an Enter dispatches a command exactly when currentLine has a        *)
(* character that is no white space, and then the command is currentLine   *)
(* without its leading and trailing white space (so it is non-empty and    *)
(* neither starts nor ends with white space); otherwise nothing is         *)
(* dispatched and exactly one prompt is written.  Every Enter leaves       *)
(* currentLine empty, so k Enters in a row write k prompts.                *)
(***************************************************************************)
EnterStep ==
    Len(terminal') > Len(terminal) /\ terminal'[Len(terminal) + 1].src = "enter"

NonBlank(s) == \E i \in DOMAIN s : s[i] \notin WhiteSpace

\* c is s without its leading and trailing white space
IsTrimOf(c, s) ==
    \E i, j \in DOMAIN s :
        /\ i <= j
        /\ c = SubSeq(s, i, j)
        /\ s[i] \notin WhiteSpace
        /\ s[j] \notin WhiteSpace
        /\ \A k \in DOMAIN s : (k < i \/ k > j) => s[k] \in WhiteSpace

C6_EnterDispatch ==
    [][EnterStep =>
        /\ currentLine' = <<>>
        /\ IF NonBlank(currentLine)
           THEN /\ Len(commands') = Len(commands) + 1
                /\ SubSeq(commands', 1, Len(commands)) = commands
                /\ IsTrimOf(commands'[Len(commands')].command, currentLine)
           ELSE /\ commands' = commands
                /\ NumPrompts' = NumPrompts + 1]_vars

\* a blank line entered, then Enter again: one prompt after each
C6_Witness ==
    \E k \in DOMAIN terminal :
        /\ k + 5 <= Len(terminal)
        /\ terminal[k].src = "echo" /\ terminal[k].text = <<" ">>
        /\ terminal[k + 1].src = "enter" /\ terminal[k + 1].cmd = 0
        /\ terminal[k + 2].src = "prompt"
        /\ terminal[k + 4].src = "enter" /\ terminal[k + 4].cmd = 0
        /\ terminal[k + 5].src = "prompt"

(***************************************************************************)
(* C7: after a cd whose resolved path is an existing directory, cwd is     *)
(* that resolved path, and a pwd dispatched after it with no cd in between *)
(* writes exactly that path.                                               *)
(***************************************************************************)
C7_CdThenPwd ==
    \A i \in DOMAIN commands :
        (commands[i].branch = "cd" /\ cdTarget(i) \in Dirs)
        => /\ cwdAfter(i) = cdTarget(i)
           /\ \A j \in DOMAIN commands :
                 (/\ i < j
                  /\ commands[j].branch = "pwd"
                  /\ \A m \in DOMAIN commands : (i < m /\ m < j) => commands[m].branch # "cd")
                 => /\ Count("pwd", j) = 1
                    /\ \A k \in DOMAIN terminal :
                          (terminal[k].cmd = j /\ terminal[k].src = "pwd")
                          => Bytes(terminal[k]) = cdTarget(i) \o CRLF

C7_Witness ==
    \E i \in DOMAIN commands :
        /\ commands[i].branch = "cd"
        /\ cdTarget(i) \in Dirs
        /\ cdTarget(i) # commands[i].cwd
        /\ cdTarget(i) # cdArg(i)
        /\ i < Len(commands)
        /\ commands[i + 1].branch = "pwd"

(***************************************************************************)
(* C8: a cd whose resolved path is no existing directory leaves cwd        *)
(* unchanged and writes exactly one error line, then the prompt: the line  *)
(* is "cd: no such file or directory: " and the target as typed when the   *)
(* path is missing or no directory, and "cd: " and the exception's message *)
(* when the check throws.                                                  *)
(***************************************************************************)
C8_CdFailure ==
    \A i \in DOMAIN commands :
        (commands[i].branch = "cd" /\ cdTarget(i) \notin Dirs)
        => /\ commands[i].stat \in {"missing", "notdir", "throws"}
           /\ cwdAfter(i) = commands[i].cwd
           /\ Count("cderr", i) = 1
           /\ Count("prompt", i) = 1
           /\ BytesOf(i) =
                 red(IF commands[i].stat = "throws"
                     THEN <<"c", "d", ":", " ">> \o statMessage
                     ELSE noSuchFile \o cdArg(i))
                 \o CRLF \o promptText(commands[i].cwd, TRUE)

C8_Witness ==
    /\ \E i \in DOMAIN commands :
          commands[i].branch = "cd" /\ commands[i].stat = "throws"
    /\ \E i \in DOMAIN commands :
          /\ commands[i].branch = "cd"
          /\ commands[i].stat \in {"missing", "notdir"}
          /\ cdArg(i) # cdTarget(i)

(***************************************************************************)
(* C9: when the callback of an external command has run, stdout was        *)
(* written verbatim iff it is non-empty, stderr was written in red iff it  *)
(* is non-empty, and the error's message was written in red iff there was  *)
(* an error and stderr is empty: never both, and each at most once.        *)
(***************************************************************************)
C9_ExecOutput ==
    \A i \in DOMAIN commands :
        (commands[i].branch = "exec" /\ commands[i].done)
        => /\ Count("stdout", i) = IF commands[i].stdout # <<>> THEN 1 ELSE 0
           /\ Count("stderr", i) = IF commands[i].stderr # <<>> THEN 1 ELSE 0
           /\ Count("error", i) =
                 IF commands[i].error # NoError /\ commands[i].stderr = <<>> THEN 1 ELSE 0
           /\ Count("error", i) + Count("stderr", i) <= 1
           /\ \A k \in DOMAIN terminal :
                 terminal[k].cmd = i =>
                    /\ terminal[k].src = "stdout" => Bytes(terminal[k]) = commands[i].stdout
                    /\ terminal[k].src = "stderr" =>
                          Bytes(terminal[k]) = <<"ESC[31m">> \o commands[i].stderr \o <<"ESC[0m">>
                    /\ terminal[k].src = "error" =>
                          Bytes(terminal[k]) =
                             <<"ESC[31m">> \o commands[i].error \o <<"ESC[0m">> \o CRLF

\* stdout and a failure with empty stderr: the message, once
C9_Witness ==
    \E i \in DOMAIN commands :
        /\ commands[i].branch = "exec" /\ commands[i].done
        /\ commands[i].stdout # <<>>
        /\ commands[i].stderr = <<>>
        /\ commands[i].error # NoError
        /\ Count("error", i) = 1

(***************************************************************************)
(* C10, as claimed: pwd writes cwd, one line break, and then the prompt    *)
(* starting directly with its directory segment.                           *)
(***************************************************************************)
C10_PwdNoBlankLine ==
    \A i \in DOMAIN commands :
        commands[i].branch = "pwd"
        => BytesOf(i) = commands[i].cwd \o CRLF
                          \o <<"ESC[32m">> \o commands[i].cwd \o <<"ESC[0m", " ", "$", " ">>

(***************************************************************************)
(* C10, amended: pwd writes cwd, one line break, and then the prompt as    *)
(* writePrompt() writes it, which begins with a line break of its own      *)
(* before the directory segment; nothing else, and no process is started.  *)
(***************************************************************************)
C10_PwdThenPrompt ==
    \A i \in DOMAIN commands :
        commands[i].branch = "pwd"
        => /\ BytesOf(i) = commands[i].cwd \o CRLF \o CRLF
                             \o <<"ESC[32m">> \o commands[i].cwd \o <<"ESC[0m", " ", "$", " ">>
           /\ i \notin Outstanding
           /\ cwdAfter(i) = commands[i].cwd

C10_Witness ==
    \E i \in DOMAIN commands :
        /\ commands[i].branch = "pwd"
        /\ commands[i].cwd # homedir
        /\ Count("prompt", i) = 1

CtrlCStep ==
    Len(terminal') > Len(terminal) /\ terminal'[Len(terminal) + 1].src = "ctrlc"

C12_CtrlC ==
    [][CtrlCStep =>
        /\ currentLine' = <<>>
        /\ Len(terminal') = Len(terminal) + 3
        /\ SubSeq(terminal', 1, Len(terminal)) = terminal
        /\ Bytes(terminal'[Len(terminal) + 1]) = <<"^", "C", "\r", "\n">>
        /\ terminal'[Len(terminal) + 2].src = "prompt"
        /\ terminal'[Len(terminal) + 3].op = "scrollToBottom"
        /\ NumPrompts' = NumPrompts + 1
        /\ commands' = commands
        /\ cwd' = cwd]_vars

\* a Ctrl-C that discarded a line in progress
C12_Witness ==
    \E k \in DOMAIN terminal :
        /\ k + 2 <= Len(terminal)
        /\ terminal[k].src = "echo" /\ terminal[k].text # <<>>
        /\ terminal[k + 1].src = "ctrlc"
        /\ terminal[k + 2].src = "prompt"
        /\ currentLine = <<>>

(***************************************************************************)
(* C13: a Backspace on a non-empty currentLine removes exactly its last    *)
(* character and writes the erase sequence once; on an empty currentLine   *)
(* it changes nothing and writes nothing.  The erase sequence is written   *)
(* only when a character was removed.                                      *)
(***************************************************************************)
EraseStep ==
    Len(terminal') > Len(terminal) /\ terminal'[Len(terminal) + 1].src = "erase"

C13_Backspace ==
    [][/\ handleInput(<<"DEL">>) =>
            IF currentLine = <<>>
            THEN UNCHANGED <<cwd, currentLine, terminal, commands>>
            ELSE EraseStep
       /\ EraseStep =>
            /\ currentLine # <<>>
            /\ Len(currentLine') = Len(currentLine) - 1
            /\ currentLine' = SubSeq(currentLine, 1, Len(currentLine) - 1)
            /\ terminal' = Append(terminal, terminal'[Len(terminal')])
            /\ Bytes(terminal'[Len(terminal')]) = <<"BS", " ", "BS">>
            /\ commands' = commands
            /\ cwd' = cwd]_vars

\* a line erased down to empty: the next Backspace is the one on an empty line
C13_Witness ==
    \E k \in DOMAIN terminal :
        /\ k + 1 = Len(terminal)
        /\ terminal[k].src = "echo" /\ Len(terminal[k].text) = 1
        /\ terminal[k + 1].src = "erase"
        /\ currentLine = <<>>
        /\ view = "open"
        /\ NumInputs < MaxEvents

(***************************************************************************)
(* C14: while only printable units arrive after currentLine was last       *)
(* empty (no Enter, Ctrl-C or Backspace since), currentLine is the         *)
(* concatenation of those units in arrival order; each unit is echoed as   *)
(* it came, and no command is dispatched by it.                            *)
(***************************************************************************)
EchoStep ==
    Len(terminal') > Len(terminal) /\ terminal'[Len(terminal) + 1].src = "echo"

\* the last Enter or Ctrl-C written to the terminal, 0 if none
LastReset ==
    LET R == { k \in DOMAIN terminal : terminal[k].src \in {"enter", "ctrlc"} }
    IN  IF R = {} THEN 0 ELSE CHOOSE k \in R : \A m \in R : m <= k

\* the units echoed since then
EchoedSinceReset ==
    Flatten(SelectSeq(SubSeq(terminal, LastReset + 1, Len(terminal)),
                      LAMBDA c : c.src = "echo"))

C14_PrintableAppends ==
    /\ []((\A k \in DOMAIN terminal : k > LastReset => terminal[k].src # "erase")
          => currentLine = EchoedSinceReset)
    /\ [][EchoStep =>
            /\ terminal' = Append(terminal, terminal'[Len(terminal')])
            /\ terminal'[Len(terminal')].op = "write"
            /\ currentLine' = currentLine \o terminal'[Len(terminal')].text
            /\ commands' = commands
            /\ cwd' = cwd]_vars

\* two units typed one after the other
C14_Witness ==
    \E k \in DOMAIN terminal :
        /\ k + 1 = Len(terminal)
        /\ terminal[k].src = "echo" /\ terminal[k + 1].src = "echo"
        /\ terminal[k].text # terminal[k + 1].text
        /\ currentLine = terminal[k].text \o terminal[k + 1].text
        /\ Len(terminal[k + 1].text) > 1

(***************************************************************************)
(* C15: a command is handled by exactly one branch, the first that matches *)
(* of: it begins with "cd " (lower case) -> changeDirectory with the       *)
(* trimmed remainder; it is "clear" or "cls" -> clear; it is "pwd" -> pwd; *)
(* anything else -> exec.  A built-in never starts a process and writes    *)
(* only what its own branch writes.                                        *)
(***************************************************************************)
Classify(c) ==
    IF Len(c) >= 3 /\ c[1] = "c" /\ c[2] = "d" /\ c[3] = " " THEN "cd"
    ELSE IF c = <<"c", "l", "e", "a", "r">> \/ c = <<"c", "l", "s">> THEN "clear"
    ELSE IF c = <<"p", "w", "d">> THEN "pwd"
    ELSE "exec"

\* what a branch may write besides the prompt
BranchSrc(branch) ==
    CASE branch = "cd" -> {"cderr"}
      [] branch = "clear" -> {"clear"}
      [] branch = "pwd" -> {"pwd"}
      [] OTHER -> {"stdout", "stderr", "error"}

C15_Classification ==
    \A i \in DOMAIN commands :
        /\ commands[i].branch = Classify(commands[i].command)
        /\ commands[i].branch # "exec" => i \notin Outstanding
        /\ commands[i].branch = "cd" => commands[i].stat \in StatOutcomes(cdTarget(i))
        /\ commands[i].branch # "cd" => commands[i].stat = "none"
        /\ \A k \in DOMAIN terminal :
              terminal[k].cmd = i =>
                 terminal[k].src \in
                    {"enter", "prompt", "scroll"} \cup BranchSrc(commands[i].branch)

\* "cd pwd" changes directory: the cd branch, with target pwd
C15_Witness ==
    \E i \in DOMAIN commands :
        /\ commands[i].command = <<"c", "d", " ", "p", "w", "d">>
        /\ commands[i].branch = "cd"
        /\ cdArg(i) = <<"p", "w", "d">>
        /\ Count("cderr", i) = 1

(***************************************************************************)
(* C16: a Ctrl-C while an external command is outstanding does not cancel  *)
(* it: the command stays outstanding and only currentLine is emptied, and  *)
(* when its callback runs later it still writes its output and its prompt. *)
(***************************************************************************)
\* a Ctrl-C was handled between the dispatch of command i and its prompt
CtrlCDuring(i) ==
    \E k \in DOMAIN terminal :
        /\ terminal[k].src = "ctrlc"
        /\ DispatchPos(i) < k
        /\ \E m \in k + 1 .. Len(terminal) :
              terminal[m].src = "prompt" /\ terminal[m].cmd = i

\* every finished external command that saw a Ctrl-C has its output and prompt
\* (it holds of Init, where commands is empty, so it is checked after each step)
CtrlCOutputKept ==
    \A i \in DOMAIN commands :
        (commands[i].branch = "exec" /\ commands[i].done /\ CtrlCDuring(i))
        => /\ Count("prompt", i) = 1
           /\ Count("stdout", i) = IF commands[i].stdout # <<>> THEN 1 ELSE 0
           /\ Count("stderr", i) = IF commands[i].stderr # <<>> THEN 1 ELSE 0

C16_CtrlCDoesNotCancel ==
    [][/\ (CtrlCStep /\ Outstanding # {}) =>
             /\ commands' = commands
             /\ Outstanding' = Outstanding
             /\ currentLine' = <<>>
             /\ \A k \in Len(terminal) + 1 .. Len(terminal') : terminal'[k].cmd = 0
       /\ CtrlCOutputKept']_vars

\* the callback ran after the Ctrl-C and wrote stdout and the prompt
C16_Witness ==
    \E i \in DOMAIN commands :
        /\ commands[i].branch = "exec" /\ commands[i].done
        /\ CtrlCDuring(i)
        /\ commands[i].stdout # <<>>
        /\ \E k, m \in DOMAIN terminal :
              /\ k < m
              /\ terminal[k].src = "ctrlc"
              /\ terminal[m].src = "stdout" /\ terminal[m].cmd = i

(***************************************************************************)
(* C17: changeDirectory is never given an empty target: the line is        *)
(* trimmed before it is dispatched, so "cd" alone, typed with or without   *)
(* white space after it, does not begin with "cd "; it goes to exec and    *)
(* cwd stays as it is.                                                     *)
(***************************************************************************)
C17_BareCdIsExternal ==
    \A i \in DOMAIN commands :
        /\ commands[i].branch = "cd" => cdArg(i) # <<>>
        /\ commands[i].command = <<"c", "d">>
           => /\ commands[i].branch = "exec"
              /\ cwdAfter(i) = commands[i].cwd
              /\ Count("cderr", i) = 0
        /\ commands[i].command # <<"c", "d", " ">>

\* "cd " was on the line (the echo of "cd a", then one Backspace) when Enter came
C17_Witness ==
    \E i \in DOMAIN commands, k \in DOMAIN terminal :
        /\ commands[i].command = <<"c", "d">>
        /\ commands[i].branch = "exec"
        /\ k + 2 = DispatchPos(i)
        /\ terminal[k].src = "echo" /\ terminal[k].text = <<"c", "d", " ", "a">>
        /\ terminal[k + 1].src = "erase"

(***************************************************************************)
(* C18: once the view is open, the prompts written plus the external       *)
(* commands outstanding equal 1 plus the Enters and the Ctrl-Cs handled.   *)
(***************************************************************************)
NumCalls(src) == Len(SelectSeq(terminal, LAMBDA c : c.src = src))

C18_PromptAccounting ==
    view # "constructed"
    => NumPrompts + Cardinality(Outstanding) = 1 + NumCalls("enter") + NumCalls("ctrlc")

C18_Witness ==
    /\ Cardinality(Outstanding) = 1
    /\ NumCalls("ctrlc") = 1
    /\ NumCalls("enter") = 2
    /\ NumPrompts = 3

(***************************************************************************)
(* C19: an external command runs in the cwd of the moment it was           *)
(* dispatched: the directory handed to exec is cwd at dispatch, no later   *)
(* step changes it (a cd that succeeds before the callback included), and  *)
(* the callback does not change cwd.                                       *)
(***************************************************************************)
CallbackStep ==
    \E i \in DOMAIN commands : ~commands[i].done /\ commands'[i].done

C19_ExecKeepsDispatchCwd ==
    [][/\ \A i \in DOMAIN commands :
             /\ i \in DOMAIN commands'
             /\ commands'[i].cwd = commands[i].cwd
             /\ commands'[i].command = commands[i].command
       /\ Len(commands') > Len(commands) => commands'[Len(commands')].cwd = cwd
       /\ CallbackStep => cwd' = cwd]_vars

\* the callback ran after a cd had moved cwd away from the command's directory
C19_Witness ==
    \E i \in DOMAIN commands :
        /\ commands[i].branch = "exec" /\ commands[i].done
        /\ commands[i].cwd # cwd
        /\ i < Len(commands)
        /\ commands[i + 1].branch = "cd" /\ commands[i + 1].stat = "dir"
        /\ \E k, m \in DOMAIN terminal :
              /\ k < m
              /\ terminal[k].src = "prompt" /\ terminal[k].cmd = i + 1
              /\ terminal[m].src = "prompt" /\ terminal[m].cmd = i

(***************************************************************************)
(* C20: shellProcess is null at every step, closing the view completes no  *)
(* external command and leaves each outstanding one outstanding, and a     *)
(* callback that runs after the close still writes to the disposed         *)
(* terminal, a prompt among its writes.                                    *)
(***************************************************************************)
Disposed == \E k \in DOMAIN terminal : terminal[k].op = "dispose"

CloseStep == view = "open" /\ view' = "closed"

C20_CloseKillsNothing ==
    [][/\ shellProcess = "null" /\ shellProcess' = "null"
       /\ CloseStep => /\ commands' = commands
                       /\ Outstanding' = Outstanding
                       /\ Disposed'
       /\ (view = "closed" /\ CallbackStep)
          => /\ Disposed
             /\ Len(terminal') > Len(terminal)
             /\ SubSeq(terminal', 1, Len(terminal)) = terminal
             /\ \A k \in Len(terminal) + 1 .. Len(terminal') :
                   /\ terminal'[k].cmd \in Outstanding
                   /\ terminal'[k].op \in {"write", "writeln", "scrollToBottom"}
             /\ \E k \in Len(terminal) + 1 .. Len(terminal') :
                   terminal'[k].src = "prompt"]_vars

\* closed with a command outstanding; its stdout and prompt come after dispose
C20_Witness ==
    /\ view = "closed"
    /\ shellProcess = "null"
    /\ \E i \in DOMAIN commands, d, o, p \in DOMAIN terminal :
          /\ commands[i].branch = "exec" /\ commands[i].done
          /\ terminal[d].op = "dispose"
          /\ d < o /\ o < p
          /\ terminal[o].cmd = i /\ terminal[o].src = "stdout"
          /\ terminal[p].cmd = i /\ terminal[p].src = "prompt"

(***************************************************************************)
(* The next-state relation.                                                *)
(***************************************************************************)
Next == onOpen \/ onData \/ execDone \/ onClose

Spec == Init /\ [][Next]_vars

====
